---- MODULE Spec2Model ----
(***************************************************************************)
(* micro-observables: the dependency-tracking and notification engine of   *)
(* src/src/observable.ts (BaseObservable, Observable, WritableObservable,  *)
(* DerivedObservable, memoize) with the default batched updater of         *)
(* src/src/batchedUpdater.ts.                                              *)
(*                                                                         *)
(* Every public call (set, batch, onChange, an unsubscriber, get) is one   *)
(* action; the synchronous call tree below it is evaluated by recursive    *)
(* operators that thread the heap `s` (a record of every object's fields)  *)
(* exactly in the order of the TypeScript statements.                      *)
(***************************************************************************)
EXTENDS Integers, Sequences, FiniteSets, TLC

\* ------------------------------------------------------------------ bounds
\* Writable cells take the plain values 0..MaxVal in the program with one cell
\* and 0..MaxPair in the program with two cells.
MaxVal == 2
MaxPair == 1
\* Unsubscribe handles (listener registrations) a client holds at a time.
MaxRegs == 2

\* ------------------------------------------------------------ object graph
\* The observables a client program constructs, in construction order:
\*   a = observable(0); b = observable(0);
\*   d = a.transform(v => Math.floor(v / 2)); e = a.transform(v => v % 2);
\*   m = Observable.from(a, b);  t = m.transform(([x, y]) => x + y);
\*   inc = a.transform(v => v + 1);  pair = Observable.from(inc, e);  z = observable(0);
\*   q = b.transform(v => v + 2);  sel = a.transform(v => v === 0 ? z : q);
\*   odd = a.onlyIf(v => v % 2 === 1);  lat = Observable.latest(a, b);
\*   book = Observable.compute(() => [a.get(), b.get()]);
\*   cond = Observable.compute(() => a.get() === 0 ? b.get() : z.get());
\*   len = Observable.compute(() => book.get()[0] % 2);
\*   neg = e.transform(v => 1 - v);
\*   risky = Observable.compute(() => { if (a.get() === 1) throw "boom"; return b.get(); });
a == 1
b == 2
d == 3
e == 4
m == 5
t == 6
pair == 7
z == 8
q == 9
sel == 10
odd == 11
lat == 12
book == 13
cond == 14
len == 15
inc == 16
neg == 17
risky == 18
Cells == {a, b, z}
DerivedObs == {d, e, m, t, pair, q, sel, odd, lat, inc, neg}
ComputedObs == {book, cond, len, risky}
Obs == Cells \cup DerivedObs \cup ComputedObs
\* A client program works on one family of observables.
Programs == {"transform", "sum", "diamond", "alias", "select", "onlyIf", "latest", "nested", "compute",
             "chain", "risky", "reentrant", "subscription", "hook"}
Used(p) == CASE p = "transform" -> {a, d, e}
             [] p = "sum" -> {a, b, m, t}
             [] p = "diamond" -> {a, inc, e, pair}
             [] p = "alias" -> {a, b, z}
             [] p = "select" -> {a, b, z, q, sel}
             [] p = "onlyIf" -> {a, odd}
             [] p = "latest" -> {a, b, lat}
             [] p = "nested" -> {a, b, book}
             [] p = "compute" -> {a, b, z, cond}
             [] p = "chain" -> {a, e, neg}
             [] p = "risky" -> {a, b, risky}
             [] p = "reentrant" -> {a}
             [] p = "subscription" -> {a, d}
             [] p = "hook" -> {a, d, e}

\* DerivedObservable._computeInputs
ComputeInputs(o) == CASE o = d -> <<a>> [] o = e -> <<a>> [] o = m -> <<a, b>> [] o = t -> <<m>>
                      [] o = pair -> <<inc, e>> [] o = q -> <<b>> [] o = sel -> <<a>>
                      [] o = odd -> <<a>> [] o = lat -> <<a, b>> [] o = inc -> <<a>> [] o = neg -> <<e>>
                      [] OTHER -> <<>>

\* ------------------------------------------------------------------ values
\* A JavaScript value is a tuple of integers so that TLA+ equality is `===`:
\*   <<0, n>>          the number n (identical iff equal)
\*   <<-1, o>>         a reference to observable o
\*   <<id, e1, .., ek>> the array object number id >= 1 holding numbers e1..ek
\*                     (two arrays are identical iff they are the same object)
Prim(n) == <<0, n>>
ObsRef(o) == <<-1, o>>
Arr(id, elems) == <<id>> \o elems
IsObs(v) == v[1] = -1
IsArr(v) == v[1] >= 1
ValuesOf(p) == {Prim(n) : n \in 0..(IF p \in {"transform", "onlyIf", "chain", "reentrant", "hook"} THEN MaxVal ELSE MaxPair)}
\* What toStrictEqual compares: an array's elements, not its identity.
Content(v) == IF IsArr(v) THEN <<1>> \o Tail(v) ELSE v

Handles == 1..MaxRegs
\* Listener functions: 0 records its arguments; k in Handles records its
\* arguments and then calls the unsubscriber held in handle k.
Callbacks == 0..MaxRegs
\* The listener function that calls get() on the derived observables of its
\* program and records what they return along with its arguments.
Reader == -1
ReadBy(p) == IF p = "chain" THEN <<e, neg>> ELSE <<>>
\* The listener function v => { if (v !== 0) a.set(0) }: it records its arguments
\* and sets the cell it listens to back to 0.
Setter == -2
SetterValue == Prim(0)
\* The listener function () => forceRender({}) that useObservable subscribes, and
\* the handle that keeps the unsubscriber its effect returns (its cleanup).
ForceRender == -3
HookHandle == MaxRegs
\* The program "transform" registers up to MaxRegs listeners of any kind, the
\* program "diamond" up to MaxRegs recording listeners, the program "chain" up
\* to MaxRegs recording or reading listeners, the program "reentrant" up to
\* MaxRegs recording or setting listeners, the other programs one recording
\* listener at a time.
HandlesOf(p) == IF p \in {"transform", "diamond", "chain", "reentrant"} THEN Handles ELSE {1}
CallbacksOf(p) ==
  CASE p = "transform" -> Callbacks
    [] p = "chain" -> {0, Reader}
    [] p = "reentrant" -> {0, Setter}
    [] p = "hook" -> {0, 1}
    [] OTHER -> {0}

VARIABLES
  val,              \* BaseObservable._val
  valInput,         \* BaseObservable._valInput (0: undefined)
  inputs,           \* BaseObservable._inputs
  outputs,          \* BaseObservable._outputs
  listeners,        \* BaseObservable._listeners (the functions, in order)
  attachedToInputs, \* BaseObservable._attachedToInputs
  dirty,            \* BaseObservable._dirty
  lastArgs,         \* memoize: lastArgs of each derived observable's closure
  lastResult,       \* memoize: lastResult
  filteredVal,      \* onlyIf: filteredVal of the closure given to transform
  prevValues,       \* latest: prevValues of the closure (<<>>: undefined)
  handles,          \* the unsubscribers returned by onChange: obs, listener, listenerRemoved
  log,              \* listener invocations of the last call, in order
  op,               \* the last call made by the client
  pre,              \* what get() returned for each observable just before that call (the post of the call before)
  post,             \* what get() returns for each observable once the call has returned
  evaluated,        \* the compute observables whose function ran during the last call, in order
  hist,             \* what the client has done so far (see NoHist)
  capturing,        \* the module variable capturedInputs holds an array (is not undefined)
  inputAlreadyCaptured, \* the module variable inputAlreadyCaptured
  unsubs,           \* earlier ComputedObservable: _unsubscribeFromInputObservables of d
  hook,             \* the component calling useObservable(obs): its phase, val and pending re-render
  program           \* which of the observables the client program uses

vars == <<val, valInput, inputs, outputs, listeners, attachedToInputs, dirty,
          lastArgs, lastResult, filteredVal, prevValues, handles, log, op, pre, post,
          evaluated, hist, capturing, inputAlreadyCaptured, unsubs, hook, program>>

\* The heap as one record, threaded through the call tree.
Cur == [val |-> val, valInput |-> valInput, inputs |-> inputs, outputs |-> outputs,
        listeners |-> listeners, attachedToInputs |-> attachedToInputs, dirty |-> dirty,
        lastArgs |-> lastArgs, lastResult |-> lastResult, filteredVal |-> filteredVal,
        prevValues |-> prevValues, handles |-> handles, log |-> <<>>, depth |-> 0,
        capturing |-> capturing, capturedInputs |-> <<>>, inputAlreadyCaptured |-> inputAlreadyCaptured,
        thrown |-> FALSE, error |-> "", evals |-> <<>>, hist |-> hist, hook |-> hook]

\* ----------------------------------------------------------- array helpers
\* Array.prototype.indexOf, 1-based; 0 stands for JavaScript's -1.
IndexOf(seq, x) == IF \E i \in 1..Len(seq) : seq[i] = x
                   THEN CHOOSE i \in 1..Len(seq) : seq[i] = x /\ \A j \in 1..(i - 1) : seq[j] # x
                   ELSE 0
\* seq.splice(i, 1) for the result of indexOf: splice(-1, 1) removes the LAST element.
Splice(seq, i) == IF Len(seq) = 0 THEN seq
                  ELSE LET k == IF i = 0 THEN Len(seq) ELSE i
                       IN SubSeq(seq, 1, k - 1) \o SubSeq(seq, k + 1, Len(seq))

\* Array identities in use anywhere in the heap; a new array gets another one.
IdsIn(vs) == {v[1] : v \in {w \in vs : IsArr(w)}}
Range(f) == {f[i] : i \in DOMAIN f}
LiveIds(s) == IdsIn(Range(s.val)) \cup IdsIn(Range(s.lastResult))
              \cup UNION {IdsIn(Range(s.lastArgs[o])) : o \in Obs}
RECURSIVE FirstFree(_, _)
FirstFree(live, k) == IF k \in live THEN FirstFree(live, k + 1) ELSE k
FreshId(s) == FirstFree(LiveIds(s), 1)

\* ------------------------------------------------- the user's pure functions
\* The function given to transform()/from() for observable o, applied to the
\* array of input values `args`; a from() result is the args array itself,
\* a new object each time it is built.
Compute(s, o, args) ==
  CASE o = d -> Prim(args[1][2] \div 2)
    [] o = e -> Prim(args[1][2] % 2)
    [] o = m -> Arr(FreshId(s), <<args[1][2], args[2][2]>>)
    [] o = t -> Prim(args[1][2] + args[1][3])
    [] o = pair -> Arr(FreshId(s), <<args[1][2], args[2][2]>>)
    [] o = inc -> Prim(args[1][2] + 1)
    [] o = q -> Prim(args[1][2] + 2)
    [] o = sel -> IF args[1] = Prim(0) THEN ObsRef(z) ELSE ObsRef(q)
    [] o = neg -> Prim(1 - args[1][2])

\* The JavaScript value undefined.
Undefined == <<0, -1>>

\* onlyIf, lines 215-221: the function given to transform, with its variable
\* filteredVal; the predicate is v => v % 2 === 1.
onlyIfTransform(s, o, args) ==
  IF args[1][2] % 2 = 1
  THEN [s |-> [s EXCEPT !.filteredVal[o] = args[1]], v |-> args[1]]
  ELSE [s |-> s, v |-> s.filteredVal[o]]

\* latest, lines 243-248: the function given to DerivedObservable, with its
\* variable prevValues; values.find(...) is undefined when no element differs.
latestCompute(s, o, args) ==
  LET prev == s.prevValues[o]
      differing == {i \in 1..Len(args) : args[i] # prev[i]}
      found == IF differing = {} THEN Undefined
               ELSE args[CHOOSE i \in differing : \A i2 \in differing : i <= i2]
  IN [s |-> [s EXCEPT !.prevValues[o] = args], v |-> IF prev = <<>> THEN args[1] ELSE found]

\* The call func(args) of memoize, line 357, for the function of observable o.
Apply(s, o, args) ==
  CASE o = odd -> onlyIfTransform(s, o, args)
    [] o = lat -> latestCompute(s, o, args)
    [] OTHER -> [s |-> s, v |-> Compute(s, o, args)]

\* ------------------------------------------------------------------ engine
RECURSIVE Invoke(_, _, _)
RECURSIVE get(_, _)
RECURSIVE _get(_, _)
RECURSIVE setInputs(_, _, _)
RECURSIVE ComputedGet(_, _)
RECURSIVE MapGet(_, _, _, _)
RECURSIVE _set(_, _, _)
RECURSIVE invalidate(_, _)
RECURSIVE InvalidateLoop(_, _, _)
RECURSIVE NotifyLoop(_, _, _, _, _, _)
RECURSIVE RefreshLoop(_, _, _)
RECURSIVE attachToInputs(_, _)
RECURSIVE AttachLoop(_, _, _)
RECURSIVE detachFromInputs(_, _)
RECURSIVE DetachLoop(_, _, _)
RECURSIVE AddLoop(_, _, _, _)
RECURSIVE RemoveLoop(_, _, _, _)

\* BaseObservable._get: the aliased observable if there is one, else the cached value.
BaseGet(s, o) == [s |-> s, v |-> IF s.valInput[o] # 0 THEN ObsRef(s.valInput[o]) ELSE s.val[o]]

\* shouldEvaluate without the _dirty flag: an attached observable is never re-evaluated by get().
shouldEvaluateUnlessAttached(s, o) == ~s.attachedToInputs[o]

\* BaseObservable.shouldEvaluate
shouldEvaluate(s, o) == ~s.attachedToInputs[o] \/ s.dirty[o]

\* memoize without the comparison: the arguments always count as changed.
argsAlwaysChanged(last, args) == TRUE

\* memoize: the comparison of args with lastArgs (undefined lastArgs is <<>>).
argsHaveChanged(last, args) == Len(args) # Len(last) \/ \E i \in 1..Len(args) : args[i] # last[i]

\* memoize: the returned closure. func runs only when an argument changed.
memoize(s, o, args) ==
  IF argsHaveChanged(s.lastArgs[o], args)
  THEN LET r == Apply(s, o, args)
       IN [s |-> [r.s EXCEPT !.lastArgs[o] = args, !.lastResult[o] = r.v], v |-> r.v]
  ELSE [s |-> s, v |-> s.lastResult[o]]

\* DerivedObservable._get storing what it evaluates in _val.
DerivedGetStoring(s, o) ==
  IF shouldEvaluate(s, o)
  THEN LET r == MapGet(s, ComputeInputs(o), 1, <<>>)
           r2 == memoize(r.s, o, r.v)
       IN [s |-> [r2.s EXCEPT !.val[o] = r2.v], v |-> r2.v]
  ELSE BaseGet(s, o)

\* DerivedObservable._get
DerivedGet(s, o) ==
  IF shouldEvaluate(s, o)
  THEN LET r == MapGet(s, ComputeInputs(o), 1, <<>>) IN memoize(r.s, o, r.v)
  ELSE BaseGet(s, o)

\* this._computeInputs.map(input => input.get())
MapGet(s, ins, i, acc) ==
  IF i > Len(ins) THEN [s |-> s, v |-> acc]
  ELSE LET r == Invoke("get", s, <<ins[i]>>) IN MapGet(r.s, ins, i + 1, Append(acc, r.v))

\* _get, dispatched on the class of o.
_get(s, o) ==
  IF o \in DerivedObs THEN DerivedGet(s, o)
  ELSE IF o \in ComputedObs THEN ComputedGet(s, o)
  ELSE BaseGet(s, o)

\* get, lines 27-28 and 33-34: follow the value when it is an observable.  The
\* heap's field thrown says that an exception is propagating: the statements
\* after the call that threw do not run.
FollowGet(s, o) ==
  LET r == _get(s, o) IN IF ~r.s.thrown /\ IsObs(r.v) THEN Invoke("get", r.s, <<r.v[2]>>) ELSE r

\* BaseObservable.get: while a compute function runs (capturedInputs is an
\* array) each observable it reads directly is pushed to capturedInputs.
get(s, o) ==
  IF ~s.capturing \/ s.inputAlreadyCaptured THEN FollowGet(s, o)
  ELSE [FollowGet([s EXCEPT !.capturedInputs = Append(@, o), !.inputAlreadyCaptured = TRUE], o)
          EXCEPT !.s.inputAlreadyCaptured = FALSE]

\* BaseObservable.invalidate / invalidateOutputs
invalidate(s, o) == IF ~s.dirty[o] THEN InvalidateLoop([s EXCEPT !.dirty[o] = TRUE], o, 1) ELSE s
InvalidateLoop(s, o, i) ==
  IF i > Len(s.outputs[o]) THEN s ELSE InvalidateLoop(invalidate(s, s.outputs[o][i]), o, i + 1)
\* _set without the loop of lines 67-69: the outputs are not invalidated.
invalidateOutputsSkipped(s, o) == s
invalidateOutputs(s, o) == InvalidateLoop(s, o, 1)

\* BaseObservable.attachToInput / detachFromInput
attachToInput(s, o, input) ==
  LET s1 == [s EXCEPT !.outputs[input] = Append(@, o)]
  IN IF s1.dirty[input] THEN Invoke("invalidate", s1, <<o>>) ELSE s1
\* detachFromInput without the splice: the entry stays in the output list.
detachFromInputKept(s, o, input) == s
detachFromInput(s, o, input) == [s EXCEPT !.outputs[input] = Splice(@, IndexOf(@, o))]

\* BaseObservable.addInput / removeInput
addInput(s, o, input) ==
  LET s1 == [s EXCEPT !.inputs[o] = Append(@, input)]
  IN IF s1.attachedToInputs[o] THEN Invoke("attachToInput", s1, <<o, input>>) ELSE s1
removeInput(s, o, input) ==
  LET s1 == [s EXCEPT !.inputs[o] = Splice(@, IndexOf(@, input))]
  IN IF s1.attachedToInputs[o] THEN detachFromInput(s1, o, input) ELSE s1

\* BaseObservable.shouldAttachToInputs
shouldAttachToInputs(s, o) == Len(s.listeners[o]) > 0 \/ Len(s.outputs[o]) > 0

\* attachToInputs, lines 164-166: refresh the cached value, then mark attached.
RefreshOnAttach(s, o) ==
  LET r == Invoke("get", s, <<o>>)
  IN IF r.s.thrown THEN r.s
     ELSE [r.s EXCEPT !.val[o] = r.v, !.dirty[o] = FALSE, !.attachedToInputs[o] = TRUE]

\* BaseObservable.attachToInputs
attachToInputs(s, o) ==
  IF ~s.attachedToInputs[o] /\ shouldAttachToInputs(s, o)
  THEN Invoke("RefreshOnAttach", AttachLoop(s, o, 1), <<o>>)
  ELSE s
AttachLoop(s, o, i) ==
  IF i > Len(s.inputs[o]) THEN s
  ELSE LET input == s.inputs[o][i]
       IN AttachLoop(Invoke("attachToInputs", Invoke("attachToInput", s, <<o, input>>), <<input>>), o, i + 1)

\* BaseObservable.detachFromInputs
detachFromInputs(s, o) ==
  IF s.attachedToInputs[o] /\ ~shouldAttachToInputs(s, o)
  THEN Invoke("DetachLoop", [s EXCEPT !.attachedToInputs[o] = FALSE], <<o, 1>>)
  ELSE s
DetachLoop(s, o, i) ==
  IF i > Len(s.inputs[o]) THEN s
  ELSE LET input == s.inputs[o][i]
       IN DetachLoop(Invoke("detachFromInputs", detachFromInput(s, o, input), <<input>>), o, i + 1)

\* onChange, line 91: this._listeners.splice(this._listeners.indexOf(listener), 1)
RemoveListener(ls, cb) == Splice(ls, IndexOf(ls, cb))

\* The unsubscriber returned by onChange (the closure of lines 88-94) for handle h.
Unsubscriber(s, h) ==
  IF s.handles[h].state = "active"
  THEN LET o == s.handles[h].obs
       IN Invoke("detachFromInputs",
                 [s EXCEPT !.handles[h] = [state |-> "removed", obs |-> 0, cb |-> 0],
                           !.listeners[o] = RemoveListener(@, s.handles[h].cb)], <<o>>)
  ELSE s

\* The reading listener: get() on os[i], os[i + 1], ..., and what each returned.
RECURSIVE ReadAll(_, _, _, _)
ReadAll(s, os, i, seen) ==
  IF i > Len(os) THEN [s |-> s, v |-> seen]
  ELSE LET r == Invoke("get", s, <<os[i]>>) IN ReadAll(r.s, os, i + 1, Append(seen, Content(r.v)))

\* One call listener(newVal, prevVal) of listener function cb registered on o.  The
\* listener records what it can see of its arguments: their contents and whether
\* they are the same object.
CallListener(s, cb, o, newVal, prevVal) ==
  LET r == IF cb = Reader THEN ReadAll(s, ReadBy(program), 1, <<>>) ELSE [s |-> s, v |-> <<>>]
      s1 == [r.s EXCEPT !.log = Append(@, [cb |-> cb, obs |-> o, newVal |-> Content(newVal),
                                           prevVal |-> Content(prevVal), same |-> newVal = prevVal,
                                           depth |-> s.depth, seen |-> r.v])]
  IN IF cb \in Handles THEN Invoke("Unsubscriber", s1, <<cb>>)
     ELSE IF cb = Setter /\ newVal # SetterValue THEN Invoke("WritableSet", s1, <<a, SetterValue>>)
     ELSE IF cb = ForceRender THEN [s1 EXCEPT !.hook.renders = TRUE]
     ELSE s1

\* The loop of lines 72-74 calling every listener a second time.
RECURSIVE NotifyLoopAgain(_, _, _, _, _, _)
NotifyLoopAgain(s, o, ls, i, newVal, prevVal) ==
  IF i > Len(ls) THEN s
  ELSE NotifyLoopAgain(CallListener(CallListener(s, ls[i], o, newVal, prevVal), ls[i], o, newVal, prevVal),
                       o, ls, i + 1, newVal, prevVal)

\* _set, lines 72-74: for (const listener of this._listeners.slice()) over the copy ls.
NotifyLoop(s, o, ls, i, newVal, prevVal) ==
  IF i > Len(ls) THEN s
  ELSE NotifyLoop(CallListener(s, ls[i], o, newVal, prevVal), o, ls, i + 1, newVal, prevVal)

\* _set, lines 77-79: for (const output of this._outputs) over the live array: the
\* iterator re-reads the length and the element at its index on every step.
RefreshLoop(s, o, i) ==
  IF s.thrown \/ i > Len(s.outputs[o]) THEN s
  ELSE LET output == s.outputs[o][i]
           r == Invoke("_get", s, <<output>>)
       IN IF r.s.thrown THEN r.s ELSE RefreshLoop(Invoke("_set", r.s, <<output, r.v>>), o, i + 1)

\* _set, lines 48-57: rewire the aliased input.
UpdateValInput(s, o, vi) ==
  IF s.valInput[o] # vi
  THEN LET s1 == IF s.valInput[o] # 0 THEN Invoke("removeInput", s, <<o, s.valInput[o]>>) ELSE s
           s2 == [s1 EXCEPT !.valInput[o] = vi]
       IN IF vi # 0 THEN Invoke("addInput", s2, <<o, vi>>) ELSE s2
  ELSE s

\* _set without the comparison of line 60: every value counts as a change.
ValAlwaysChanged(s, o, newVal) == TRUE

\* _set, line 60: this._val !== newVal
ValChanged(s, o, newVal) == s.val[o] # newVal

\* _set without the assignment of line 62: _val keeps the previous value.
StoreValSkipped(s, o, newVal) == [s EXCEPT !.dirty[o] = FALSE]

\* _set, lines 62-63
StoreVal(s, o, newVal) == [s EXCEPT !.val[o] = newVal, !.dirty[o] = FALSE]

\* BaseObservable._set
_set(s, o, v) ==
  LET vi == IF IsObs(v) THEN v[2] ELSE 0
      s1 == UpdateValInput(s, o, vi)
      r  == IF vi # 0 THEN Invoke("get", s1, <<vi>>) ELSE [s |-> s1, v |-> v]
  IN IF ValChanged(r.s, o, r.v)
     THEN LET prevVal == r.s.val[o]
              s2 == StoreVal(r.s, o, r.v)
              s3 == invalidateOutputs(s2, o)
              s4 == NotifyLoop(s3, o, s3.listeners[o], 1, r.v, prevVal)
          IN RefreshLoop(s4, o, 1)
     ELSE r.s

\* BaseObservable.setInputs
AddedInputs(s, o, ins) ==
  IF Len(s.inputs[o]) > 0
  THEN SelectSeq(ins, LAMBDA newInput : \A j \in 1..Len(s.inputs[o]) : s.inputs[o][j] # newInput)
  ELSE ins
RemovedInputs(s, o, ins) ==
  IF Len(s.inputs[o]) > 0
  THEN SelectSeq(s.inputs[o], LAMBDA oldInput : \A j \in 1..Len(s.inputs[o]) : oldInput # s.inputs[o][j])
  ELSE <<>>
RemoveLoop(s, o, rem, i) == IF i > Len(rem) THEN s ELSE RemoveLoop(removeInput(s, o, rem[i]), o, rem, i + 1)
AddLoop(s, o, add, i) == IF i > Len(add) THEN s ELSE AddLoop(addInput(s, o, add[i]), o, add, i + 1)
setInputs(s, o, ins) ==
  LET add == AddedInputs(s, o, ins)
      rem == RemovedInputs(s, o, ins)
  IN Invoke("AddLoop", RemoveLoop(s, o, rem, 1), <<o, add, 1>>)

\* ------------------------------------------------------- Observable.compute
\* The functions given to Observable.compute.  Each reads observables with
\* get(), one after the other, and then builds its result from what it read:
\* NextRead is the observable it reads once it has read the values `read` (0: none).
NextRead(o, read) ==
  CASE o = book -> IF Len(read) = 0 THEN a ELSE IF Len(read) = 1 THEN b ELSE 0
    [] o = cond -> IF Len(read) = 0 THEN a
                   ELSE IF Len(read) = 1 THEN (IF read[1] = Prim(0) THEN b ELSE z) ELSE 0
    [] o = len -> IF Len(read) = 0 THEN book ELSE 0
    [] o = risky -> IF Len(read) = 0 THEN a ELSE IF Len(read) = 1 THEN b ELSE 0
\* The function of o throws once it has read the values `read`.
Throws(o, read) == o = risky /\ Len(read) = 1 /\ read[1] = Prim(1)
\* The string thrown by the function of risky.
RiskyError == "boom"
ResultOf(s, o, read) ==
  CASE o = book -> Arr(FreshId(s), <<read[1][2], read[2][2]>>)
    [] o = cond -> read[2]
    [] o = len -> Prim(read[1][2] % 2)
    [] o = risky -> read[2]
RECURSIVE computeFunction(_, _, _)
computeFunction(s, o, read) ==
  IF s.thrown THEN [s |-> s, v |-> Undefined]
  ELSE IF Throws(o, read) THEN [s |-> [s EXCEPT !.thrown = TRUE, !.error = RiskyError, !.hist.threw = TRUE], v |-> Undefined]
  ELSE IF NextRead(o, read) = 0 THEN [s |-> s, v |-> ResultOf(s, o, read)]
  ELSE LET r == Invoke("get", s, <<NextRead(o, read)>>) IN computeFunction(r.s, o, Append(read, r.v))

\* evaluateAndCaptureInputs without the test of line 104.
NestedCaptureAllowed(s) == FALSE

\* evaluateAndCaptureInputs, line 104: if (capturedInputs)
NestedCapture(s) == s.capturing

\* The string thrown at line 105.
NestedComputeError == "Calling Observable.compute() from the compute function of another Observable.compute() call is unsupported"

\* evaluateAndCaptureInputs without its finally block.
ResetCaptureSkipped(s) == s

\* evaluateAndCaptureInputs, lines 110-112: finally { capturedInputs = undefined }
ResetCapture(s) == [s EXCEPT !.capturing = FALSE, !.capturedInputs = <<>>]

\* BaseObservable.evaluateAndCaptureInputs for the function of o: the value and
\* the captured inputs, or thrown.  The finally block resets capturedInputs.
evaluateAndCaptureInputs(s, o) ==
  IF NestedCapture(s)
  THEN [s |-> [s EXCEPT !.thrown = TRUE, !.error = NestedComputeError, !.hist.threw = TRUE], v |-> Undefined, inputs |-> <<>>]
  ELSE LET r == Invoke("computeFunction", [s EXCEPT !.capturing = TRUE, !.capturedInputs = <<>>,
                                          !.evals = Append(@, o)], <<o, <<>>>>)
           done == ResetCapture(r.s)
       IN IF r.s.thrown THEN [s |-> done, v |-> Undefined, inputs |-> <<>>]
          ELSE [s |-> [done EXCEPT !.hist.reads[o] = r.s.capturedInputs],
                v |-> r.v, inputs |-> r.s.capturedInputs]

\* ComputedObservable._get
ComputedGet(s, o) ==
  LET r == Invoke("evaluateAndCaptureInputs", s, <<o>>)
  IN IF r.s.thrown THEN [s |-> r.s, v |-> r.v]
     ELSE [s |-> Invoke("setInputs", r.s, <<o, r.inputs>>), v |-> r.v]

\* BaseObservable.onChange up to the return of the unsubscriber, stored in handle h.
\* When attachToInputs throws, the caller receives no unsubscriber.
onChange(s, o, cb, h) ==
  LET s1 == Invoke("attachToInputs", [s EXCEPT !.listeners[o] = Append(@, cb)], <<o>>)
  IN IF s1.thrown THEN s1 ELSE [s1 EXCEPT !.handles[h] = [state |-> "active", obs |-> o, cb |-> cb]]

\* getBatchedUpdater(): batchedUpdater is noOpBatchedUpdater unless replaced.
\* Observable.batch(block) = noOpBatchedUpdater(block) = block().  A block is a
\* sequence of statements [c, v, nest]: c.set(v), wrapped in one more
\* Observable.batch(() => ...) when nest.  depth counts the batch calls on the stack.
RECURSIVE RunBlock(_, _, _)
\* set with an updater that keeps the block for later instead of running it.
WritableSetDeferred(s, c, v) == s
\* WritableObservable.set: Observable.batch(() => this._set(val))
WritableSet(s, c, v) ==
  LET s1 == _set([s EXCEPT !.depth = @ + 1], c, v) IN [s1 EXCEPT !.depth = @ - 1]
RunStatement(s, st) ==
  IF st.nest
  THEN LET s1 == Invoke("WritableSet", [s EXCEPT !.depth = @ + 1], <<st.c, st.v>>) IN [s1 EXCEPT !.depth = @ - 1]
  ELSE Invoke("WritableSet", s, <<st.c, st.v>>)
RunBlock(s, block, i) ==
  IF i > Len(block) THEN s ELSE RunBlock(RunStatement(s, block[i]), block, i + 1)
batch(s, block) ==
  LET s1 == Invoke("RunBlock", [s EXCEPT !.depth = @ + 1], <<block, 1>>) IN [s1 EXCEPT !.depth = @ - 1]

\* ------------------------------------------------------------ construction
\* new WritableObservable(v): _set(v) on the fresh object.
\* new DerivedObservable(computeInputs, compute), lines 300-306.
NewDerived(s, o) ==
  LET r  == Invoke("MapGet", s, <<ComputeInputs(o), 1, <<>>>>)
      mr == Invoke("memoize", r.s, <<o, r.v>>)
  IN Invoke("setInputs", Invoke("_set", mr.s, <<o, mr.v>>), <<o, ComputeInputs(o)>>)

\* new ComputedObservable(compute), lines 320-325.
NewComputed(s, o) ==
  LET r == Invoke("evaluateAndCaptureInputs", s, <<o>>)
  IN IF r.s.thrown THEN r.s ELSE Invoke("setInputs", Invoke("_set", r.s, <<o, r.v>>), <<o, r.inputs>>)

\* What the client has done so far, for the statements about sequences of calls:
\*   passed    the last value given to a.set that satisfies the predicate of odd
\*   modified  the cell whose value the last effective set changed
\*   alias     for each cell, the observable it was last set to (0: a plain value)
\*   reads     for each compute observable, the observables its function read
\*             the last time the program ran it
\*   before    reads as it was when the last set was called
\*   threw     some call has thrown
NoHist == [passed |-> Undefined, modified |-> 0, alias |-> [c \in Cells |-> 0],
           reads |-> [o \in ComputedObs |-> <<>>], before |-> [o \in ComputedObs |-> <<>>],
           threw |-> FALSE]

\* The component that calls useObservable(obs):
\*   phase     "init" before its first render, "rendered" once it has rendered
\*             and its effect has not run yet, "subscribed" once the effect has
\*             run, "unmounted" once the effect's cleanup has run
\*   val       the val of its last render
\*   renders   forceRender was called and the component has not rendered since
NoHook == [obs |-> 0, phase |-> "init", val |-> Undefined, renders |-> FALSE]
HooksOf(p) == IF p = "hook" THEN {[NoHook EXCEPT !.obs = o] : o \in {a, d}} ELSE {NoHook}

\* The fields of a fresh object; _val is undefined until the constructor's _set.
Blank == [val |-> [o \in Obs |-> Undefined], valInput |-> [o \in Obs |-> 0],
          inputs |-> [o \in Obs |-> <<>>], outputs |-> [o \in Obs |-> <<>>],
          listeners |-> [o \in Obs |-> <<>>], attachedToInputs |-> [o \in Obs |-> FALSE],
          dirty |-> [o \in Obs |-> FALSE], lastArgs |-> [o \in Obs |-> <<>>],
          lastResult |-> [o \in Obs |-> Undefined],
          filteredVal |-> [o \in Obs |-> Undefined], prevValues |-> [o \in Obs |-> <<>>],
          handles |-> [h \in Handles |-> [state |-> "free", obs |-> 0, cb |-> 0]],
          log |-> <<>>, depth |-> 0,
          capturing |-> FALSE, capturedInputs |-> <<>>, inputAlreadyCaptured |-> FALSE,
          thrown |-> FALSE, error |-> "", evals |-> <<>>, hist |-> NoHist, hook |-> NoHook]
\* The first value of each cell: 0, and MaxPair + 1 for b in the program "latest".
FirstValue(p, c) == IF p = "latest" /\ c = b THEN Prim(MaxPair + 1) ELSE Prim(0)
\* The observables program p constructs, in order.
Constructions(p) ==
  CASE p = "transform" -> <<a, d, e>>
    [] p = "sum" -> <<a, b, m, t>>
    [] p = "diamond" -> <<a, inc, e, pair>>
    [] p = "alias" -> <<a, b, z>>
    [] p = "select" -> <<a, b, z, q, sel>>
    [] p = "onlyIf" -> <<a, odd>>
    [] p = "latest" -> <<a, b, lat>>
    [] p = "nested" -> <<a, b, book>>
    [] p = "compute" -> <<a, b, z, cond>>
    [] p = "chain" -> <<a, e, neg>>
    [] p = "risky" -> <<a, b, risky>>
    [] p = "reentrant" -> <<a>>
    [] p = "hook" -> <<a, d, e>>
\* observable(v), new DerivedObservable(..) or new ComputedObservable(..) for
\* os[i], os[i + 1], ...
RECURSIVE NewObservables(_, _, _)
NewObservables(s, p, i) ==
  LET os == Constructions(p)
  IN IF i > Len(os) THEN s
     ELSE LET s1 == CASE os[i] \in Cells -> Invoke("_set", s, <<os[i], FirstValue(p, os[i])>>)
                      [] os[i] \in ComputedObs -> Invoke("NewComputed", s, <<os[i]>>)
                      [] OTHER -> Invoke("NewDerived", s, <<os[i]>>)
          IN NewObservables(s1, p, i + 1)
\* The heap once program p has constructed its observables.
Constructed(p) == Invoke("NewObservables", Blank, <<p, 1>>)

\* The operator named `method` applied to the heap s and the arguments args.
Dispatch(method, s, args) ==
  CASE method = "get" -> get(s, args[1])
    [] method = "FollowGet" -> FollowGet(s, args[1])
    [] method = "_get" -> _get(s, args[1])
    [] method = "DerivedGet" -> DerivedGet(s, args[1])
    [] method = "MapGet" -> MapGet(s, args[1], args[2], args[3])
    [] method = "memoize" -> memoize(s, args[1], args[2])
    [] method = "_set" -> _set(s, args[1], args[2])
    [] method = "UpdateValInput" -> UpdateValInput(s, args[1], args[2])
    [] method = "invalidateOutputs" -> invalidateOutputs(s, args[1])
    [] method = "InvalidateLoop" -> InvalidateLoop(s, args[1], args[2])
    [] method = "invalidate" -> invalidate(s, args[1])
    [] method = "NotifyLoop" -> NotifyLoop(s, args[1], args[2], args[3], args[4], args[5])
    [] method = "CallListener" -> CallListener(s, args[1], args[2], args[3], args[4])
    [] method = "RefreshLoop" -> RefreshLoop(s, args[1], args[2])
    [] method = "WritableSet" -> WritableSet(s, args[1], args[2])
    [] method = "RunBlock" -> RunBlock(s, args[1], args[2])
    [] method = "RunStatement" -> RunStatement(s, args[1])
    [] method = "batch" -> batch(s, args[1])
    [] method = "attachToInputs" -> attachToInputs(s, args[1])
    [] method = "AttachLoop" -> AttachLoop(s, args[1], args[2])
    [] method = "attachToInput" -> attachToInput(s, args[1], args[2])
    [] method = "RefreshOnAttach" -> RefreshOnAttach(s, args[1])
    [] method = "detachFromInputs" -> detachFromInputs(s, args[1])
    [] method = "DetachLoop" -> DetachLoop(s, args[1], args[2])
    [] method = "Unsubscriber" -> Unsubscriber(s, args[1])
    [] method = "onChange" -> onChange(s, args[1], args[2], args[3])
    [] method = "setInputs" -> setInputs(s, args[1], args[2])
    [] method = "ComputedGet" -> ComputedGet(s, args[1])
    [] method = "addInput" -> addInput(s, args[1], args[2])
    [] method = "removeInput" -> removeInput(s, args[1], args[2])
    [] method = "AddLoop" -> AddLoop(s, args[1], args[2], args[3])
    [] method = "RemoveLoop" -> RemoveLoop(s, args[1], args[2], args[3])
    [] method = "computeFunction" -> computeFunction(s, args[1], args[2])
    [] method = "evaluateAndCaptureInputs" -> evaluateAndCaptureInputs(s, args[1])
    [] method = "NewDerived" -> NewDerived(s, args[1])
    [] method = "NewComputed" -> NewComputed(s, args[1])
    [] method = "NewObservables" -> NewObservables(s, args[1], args[2])

\* A method call.  JavaScript evaluates the receiver's state and the arguments
\* before the call: they are bound as values, then the method is applied.
Invoke(method, s, args) ==
  CHOOSE r \in {Dispatch(method, call[1], call[2]) : call \in {<<s, args>>}} : TRUE

\* ------------------------------------------------------------ client calls
\* What get() would return for o in heap s.
GetVal(s, o) == Invoke("get", s, <<o>>).v
Observed(s) == [o \in Obs |-> IF o \in Used(program) THEN Content(GetVal(s, o)) ELSE Undefined]

\* An array's identity is only ever compared with another array's, so the heap
\* is kept up to a renaming of the identities: they are numbered in the order in
\* which the fields _val, lastResult and lastArgs of the program's observables
\* hold them.
RECURSIVE HeldValues(_, _)
HeldValues(s, o) ==
  IF o \notin Obs THEN <<>>
  ELSE IF o \notin Used(program) THEN HeldValues(s, o + 1)
  ELSE <<s.val[o], s.lastResult[o]>> \o s.lastArgs[o] \o HeldValues(s, o + 1)
RECURSIVE FirstIds(_, _)
FirstIds(vs, seen) ==
  IF vs = <<>> THEN seen
  ELSE FirstIds(Tail(vs), IF IsArr(Head(vs)) /\ IndexOf(seen, Head(vs)[1]) = 0
                          THEN Append(seen, Head(vs)[1]) ELSE seen)
Renamed(v, order) == IF IsArr(v) THEN <<IndexOf(order, v[1])>> \o Tail(v) ELSE v
\* Only Observable.from and the compute function of book build arrays.
MakesArrays(p) == Used(p) \cap {m, pair, book} # {}

\* The heap after a call becomes the state; log holds the call's listener invocations.
\* get() is observed once the call has returned or its exception has been caught.
Install(s) ==
  /\ valInput' = s.valInput /\ inputs' = s.inputs /\ outputs' = s.outputs
  /\ listeners' = s.listeners /\ attachedToInputs' = s.attachedToInputs /\ dirty' = s.dirty
  /\ handles' = s.handles
  /\ filteredVal' = s.filteredVal /\ prevValues' = s.prevValues
  /\ evaluated' = s.evals /\ hist' = s.hist
  /\ capturing' = s.capturing /\ inputAlreadyCaptured' = s.inputAlreadyCaptured
  /\ unsubs' = unsubs /\ hook' = s.hook
  /\ IF MakesArrays(program)
     THEN \E order \in {FirstIds(HeldValues(s, 1), <<>>)} :
            /\ val' = [o \in Obs |-> Renamed(s.val[o], order)]
            /\ lastResult' = [o \in Obs |-> Renamed(s.lastResult[o], order)]
            /\ lastArgs' = [o \in Obs |-> [i \in DOMAIN s.lastArgs[o] |-> Renamed(s.lastArgs[o][i], order)]]
     ELSE val' = s.val /\ lastResult' = s.lastResult /\ lastArgs' = s.lastArgs
  /\ log' = s.log
  /\ post' = Observed([s EXCEPT !.thrown = FALSE, !.error = ""])
  /\ program' = program

\* A call of the client: its kind, receiver and arguments, the value it returned
\* and the string it threw ("": it returned normally).
NoOp == [kind |-> "new", obs |-> 0, arg |-> Undefined, h |-> 0, cb |-> 0, block |-> <<>>, ret |-> Undefined,
         error |-> ""]

InitFor(P) ==
  /\ program \in P
  /\ \E s \in {Constructed(program)} :
        /\ val = s.val /\ valInput = s.valInput /\ inputs = s.inputs
        /\ outputs = s.outputs /\ listeners = s.listeners
        /\ attachedToInputs = s.attachedToInputs /\ dirty = s.dirty
        /\ lastArgs = s.lastArgs /\ lastResult = s.lastResult
        /\ filteredVal = s.filteredVal /\ prevValues = s.prevValues
        /\ handles = s.handles /\ log = <<>>
        /\ evaluated = <<>> /\ hist = [s.hist EXCEPT !.modified = IF program = "latest" THEN a ELSE 0]
        /\ capturing = s.capturing /\ inputAlreadyCaptured = s.inputAlreadyCaptured
        /\ unsubs = <<>> /\ hook \in HooksOf(program)
        /\ op = NoOp
        /\ pre = Observed(s)
        /\ post = Observed(s)
Init == InitFor({"transform", "sum"})

\* The values program p gives to c.set: plain values, other cells in the program
\* "alias" (b stays plain, a is set to b, z to a or b: no cell reaches itself),
\* and in the program "latest" values for b that a never takes.
ArgsOf(p, c) ==
  CASE p = "alias" /\ c = z -> ValuesOf(p) \cup {ObsRef(a), ObsRef(b)}
    [] p = "alias" /\ c = a -> ValuesOf(p) \cup {ObsRef(b)}
    [] p = "latest" /\ c = b -> {Prim(n + MaxPair + 1) : n \in 0..MaxPair}
    [] OTHER -> ValuesOf(p)

\* hist once c.set(v) is called.
SetHist(c, v) ==
  [hist EXCEPT !.passed = IF program = "onlyIf" /\ c = a /\ v[2] % 2 = 1 THEN v ELSE @,
               !.modified = IF program = "latest" /\ val[c] # v THEN c ELSE @,
               !.alias[c] = IF program = "alias" /\ IsObs(v) THEN v[2] ELSE 0,
               !.before = hist.reads]

\* c.set(v) outside any batch
Set(c, v) ==
  /\ \E s \in {Invoke("WritableSet", [Cur EXCEPT !.hist = SetHist(c, v)], <<c, v>>)} :
        /\ Install(s)
        /\ op' = [NoOp EXCEPT !.kind = "set", !.obs = c, !.arg = v, !.error = s.error]
  /\ pre' = post

\* Observable.batch(() => { c1.set(v1); c2.set(v2) }), the second set wrapped in
\* a nested Observable.batch when its nest flag is set.
Statements == [c : Cells \cap Used("sum"), v : ValuesOf("sum"), nest : BOOLEAN]
Blocks == {<<s1, s2>> : s1 \in [c : Cells \cap Used("sum"), v : ValuesOf("sum"), nest : {FALSE}], s2 \in Statements}
Batch(block) ==
  /\ \E s \in {Invoke("batch", Cur, <<block>>)} : Install(s)
  /\ op' = [NoOp EXCEPT !.kind = "batch", !.block = block]
  /\ pre' = post

\* h = o.onChange(cb): the unsubscriber goes into the first handle not in use.
FreeHandle(h) == handles[h].state # "active" /\ \A k \in 1..(h - 1) : handles[k].state = "active"
Subscribe(o, cb, h) ==
  /\ FreeHandle(h) /\ Len(listeners[o]) < MaxRegs
  /\ \E s \in {Invoke("onChange", Cur, <<o, cb, h>>)} :
        /\ Install(s)
        /\ op' = [NoOp EXCEPT !.kind = "subscribe", !.obs = o, !.cb = cb, !.h = h, !.error = s.error]
  /\ pre' = post

\* Calling the unsubscriber held in handle h (a first or a repeated call).
Unsubscribe(h) ==
  /\ handles[h].state # "free" /\ handles[h].cb # ForceRender
  /\ \E s \in {Invoke("Unsubscriber", Cur, <<h>>)} : Install(s)
  /\ op' = [NoOp EXCEPT !.kind = IF handles[h].state = "active" THEN "unsubscribe" ELSE "unsubscribeAgain",
                        !.obs = handles[h].obs, !.cb = handles[h].cb, !.h = h]
  /\ pre' = post

\* The observables whose get() the client calls: the derived and compute
\* observables, the cell z where it can hold another observable and the cell a
\* that its own listener sets (get() on a plain cell returns _val and leaves
\* every field as it is).
Readable(p) ==
  (Used(p) \cap (DerivedObs \cup ComputedObs))
    \cup (IF p = "alias" THEN {z} ELSE {}) \cup (IF p = "reentrant" THEN {a} ELSE {})

\* o.get()
Get(o) ==
  /\ \E r \in {Invoke("get", Cur, <<o>>)} :
        /\ Install(r.s)
        /\ op' = [NoOp EXCEPT !.kind = "get", !.obs = o, !.ret = Content(r.v), !.error = r.s.error]
  /\ pre' = post

\* len = Observable.compute(() => book.get()[0] % 2): the constructor evaluates the
\* function, which reads the compute observable book.
NewLen ==
  /\ \E s \in {Invoke("NewComputed", Cur, <<len>>)} :
        /\ Install(s)
        /\ op' = [NoOp EXCEPT !.kind = "compute", !.obs = len,
                              !.error = s.error,
                              !.ret = IF s.thrown THEN Undefined ELSE Content(GetVal(s, len))]
  /\ pre' = post

Next ==
  \/ \E c \in Cells \cap Used(program) : \E v \in ArgsOf(program, c) : Set(c, v)
  \/ \E o \in Used(program), cb \in CallbacksOf(program), h \in HandlesOf(program) : Subscribe(o, cb, h)
  \/ \E h \in Handles : Unsubscribe(h)
  \/ \E o \in Readable(program) : Get(o)

\* The client of the program "nested" also tries to build len.
NextNested == Next \/ NewLen

\* The same client also grouping its sets with Observable.batch; its listeners
\* only record.
NextBatch ==
  \/ \E c \in Cells \cap Used(program), v \in ValuesOf(program) : Set(c, v)
  \/ \E block \in Blocks : Batch(block)
  \/ \E o \in Used(program), h \in HandlesOf(program) : Subscribe(o, 0, h)
  \/ \E h \in Handles : Unsubscribe(h)

Spec == Init /\ [][Next]_vars
InitBatch == InitFor({"sum"})
SpecBatch == InitBatch /\ [][NextBatch]_vars
\* One specification for each of the other programs.
InitDiamond == InitFor({"diamond"})
SpecDiamond == InitDiamond /\ [][Next]_vars
InitAlias == InitFor({"alias"})
SpecAlias == InitAlias /\ [][Next]_vars
InitSelect == InitFor({"select"})
SpecSelect == InitSelect /\ [][Next]_vars
InitOnlyIf == InitFor({"onlyIf"})
SpecOnlyIf == InitOnlyIf /\ [][Next]_vars
InitLatest == InitFor({"latest"})
SpecLatest == InitLatest /\ [][Next]_vars
InitNested == InitFor({"nested"})
SpecNested == InitNested /\ [][NextNested]_vars
InitCompute == InitFor({"compute"})
SpecCompute == InitCompute /\ [][Next]_vars
InitChain == InitFor({"chain"})
SpecChain == InitChain /\ [][Next]_vars
InitReentrant == InitFor({"reentrant"})
SpecReentrant == InitReentrant /\ [][Next]_vars
\* The programs in which an evaluation throws: "nested", whose client also
\* tries to build len, and "risky".
InitErrors == InitFor({"nested", "risky"})
NextErrors == Next \/ (program = "nested" /\ NewLen)
SpecErrors == InitErrors /\ [][NextErrors]_vars

\* ------------------------------------------------------------ useObservable
\* The program "hook" has the observables of "transform", a client with one
\* listener that records or unsubscribes itself, and a component that calls
\* useObservable(hook.obs) on the cell a or on the derived observable d. The observable never changes, so the effect (deps
\* [observable]) runs once, after the first render, and its cleanup once.
\* A render of the component: const val = observable.get(). The first render,
\* or a render that forceRender has requested.
HookRender ==
  /\ hook.phase = "init" \/ (hook.phase = "subscribed" /\ hook.renders)
  /\ \E r \in {Invoke("get", Cur, <<hook.obs>>)} :
        /\ Install([r.s EXCEPT !.hook = [@ EXCEPT !.val = r.v, !.renders = FALSE,
                                                   !.phase = IF @ = "init" THEN "rendered" ELSE @]])
        /\ op' = [NoOp EXCEPT !.kind = "render", !.obs = hook.obs, !.ret = Content(r.v)]
  /\ pre' = post

\* The effect: if (observable.get() !== val) forceRender({});
\* return observable.onChange(() => forceRender({})).
HookEffect ==
  /\ hook.phase = "rendered"
  /\ \E r \in {Invoke("get", Cur, <<hook.obs>>)} :
       \E s \in {Invoke("onChange", [r.s EXCEPT !.hook.renders = (r.v # hook.val)],
                        <<hook.obs, ForceRender, HookHandle>>)} :
        /\ Install([s EXCEPT !.hook.phase = "subscribed"])
        /\ op' = [NoOp EXCEPT !.kind = "effect", !.obs = hook.obs, !.ret = Content(r.v)]
  /\ pre' = post

\* The effect's cleanup: the unsubscriber onChange returned.
HookCleanup ==
  /\ hook.phase = "subscribed"
  /\ \E s \in {Invoke("Unsubscriber", Cur, <<HookHandle>>)} :
        /\ Install([s EXCEPT !.hook.phase = "unmounted"])
        /\ op' = [NoOp EXCEPT !.kind = "cleanup", !.obs = hook.obs]
  /\ pre' = post

InitHook == InitFor({"hook"})
NextHook ==
  \/ \E v \in ValuesOf(program) : Set(a, v)
  \/ \E o \in Used(program), cb \in CallbacksOf(program), h \in HandlesOf(program) : Subscribe(o, cb, h)
  \/ \E h \in Handles : Unsubscribe(h)
  \/ HookRender
  \/ HookEffect
  \/ HookCleanup
SpecHook == InitHook /\ [][NextHook]_vars

\* ------------------------------------- the earlier, subscription-based classes
\* The program "subscription" runs the earlier Observable / ComputedObservable
\* classes: a = observable(0); d = a.transform(v => Math.floor(v / 2)), which is
\* Observable.compute([a], f) = new ComputedObservable([a], computeValue).
\* _listeners of a holds the updateValue closures d subscribed (each closure is
\* an object of its own, numbered), _listeners of d the client's listener
\* functions, unsubs the unsubscribers d keeps for its subscriptions on a.
\* At most MaxSubs closures are kept subscribed on a.
MaxSubs == 3
\* The client's listener functions: each records the value it is called with.
Recorders == 1..MaxRegs
SubCur == [val |-> val, listeners |-> listeners, unsubs |-> unsubs, handles |-> handles, log |-> <<>>]

\* computeValue = () => compute(...inputObservables.map(it => it.get()))
computeValue(s) == Prim(s.val[a][2] \div 2)

\* One call l(val) of each listener in ls of observable o, recorded.
CallEach(s, o, ls, v) ==
  [s EXCEPT !.log = @ \o [i \in 1..Len(ls) |->
                            [cb |-> ls[i], obs |-> o, newVal |-> v, prevVal |-> Undefined, same |-> FALSE,
                             depth |-> 0, seen |-> <<>>]]]

\* Observable._set of the computed observable d; its listeners only record.
ComputedSet(s, v) ==
  IF s.val[d] # v THEN CallEach([s EXCEPT !.val[d] = v], d, s.listeners[d], v) ELSE s

\* updateValue = () => this._set(this.computeValue()), the closure k subscribed on a.
updateValue(s, k) == ComputedSet(CallEach(s, a, <<k>>, s.val[a]), computeValue(s))

\* this._listeners.forEach(l => l(val)) of the cell a over the closures ls.
RECURSIVE UpdateEach(_, _, _)
UpdateEach(s, ls, i) == IF i > Len(ls) THEN s ELSE UpdateEach(updateValue(s, ls[i]), ls, i + 1)

\* Observable._set of the cell a (WritableObservable.set).
ObservableSet(s, v) ==
  IF s.val[a] # v THEN UpdateEach([s EXCEPT !.val[a] = v], s.listeners[a], 1) ELSE s

\* ComputedObservable.onListenersChanged: with exactly one listener, subscribe a
\* new updateValue closure on each input and keep the unsubscribers; with none,
\* call the unsubscribers kept (each filters its closure out of a's listeners).
onListenersChanged(s) ==
  IF Len(s.listeners[d]) = 1
  THEN LET k == FirstFree(Range(s.listeners[a]), 1)
       IN [s EXCEPT !.listeners[a] = Append(@, k), !.unsubs = <<k>>]
  ELSE IF Len(s.listeners[d]) = 0
  THEN [s EXCEPT !.listeners[a] = SelectSeq(@, LAMBDA l : l \notin Range(s.unsubs)), !.unsubs = <<>>]
  ELSE s

\* ComputedObservable.subscribe; the unsubscriber it returns goes into handle h.
subscribe(s, cb, h) ==
  onListenersChanged([s EXCEPT !.listeners[d] = Append(@, cb),
                               !.handles[h] = [state |-> "active", obs |-> d, cb |-> cb]])

\* The unsubscriber () => { unsubscribe(); this.onListenersChanged(); } of handle
\* h, where unsubscribe filters the listener function out of d's listeners.
SubscriptionUnsubscriber(s, h) ==
  onListenersChanged([s EXCEPT !.listeners[d] = SelectSeq(@, LAMBDA l : l # s.handles[h].cb),
                               !.handles[h].state = "removed"])

\* ComputedObservable.get: without listener the value is computed again.
ComputedObservableGet(s) ==
  IF Len(s.listeners[d]) = 0 THEN [s EXCEPT !.val[d] = computeValue(s)] ELSE s

\* The heap of the program "subscription" after a call becomes the state.
InstallSubscription(s) ==
  /\ Len(s.listeners[a]) <= MaxSubs
  /\ val' = s.val /\ listeners' = s.listeners /\ unsubs' = s.unsubs /\ handles' = s.handles
  /\ log' = s.log
  /\ pre' = post
  /\ post' = [post EXCEPT ![a] = s.val[a], ![d] = ComputedObservableGet(s).val[d]]
  /\ UNCHANGED <<valInput, inputs, outputs, attachedToInputs, dirty, lastArgs, lastResult, filteredVal,
                 prevValues, evaluated, hist, capturing, inputAlreadyCaptured, hook, program>>

InitSubscription ==
  /\ program = "subscription"
  /\ val = [Blank.val EXCEPT ![a] = Prim(0), ![d] = Prim(0)]
  /\ valInput = Blank.valInput /\ inputs = Blank.inputs /\ outputs = Blank.outputs
  /\ listeners = Blank.listeners /\ attachedToInputs = Blank.attachedToInputs /\ dirty = Blank.dirty
  /\ lastArgs = Blank.lastArgs /\ lastResult = Blank.lastResult
  /\ filteredVal = Blank.filteredVal /\ prevValues = Blank.prevValues
  /\ handles = Blank.handles /\ log = <<>> /\ evaluated = <<>> /\ hist = NoHist
  /\ capturing = FALSE /\ inputAlreadyCaptured = FALSE /\ unsubs = <<>> /\ hook = NoHook
  /\ op = NoOp
  /\ pre = [o \in Obs |-> IF o \in {a, d} THEN Prim(0) ELSE Undefined]
  /\ post = [o \in Obs |-> IF o \in {a, d} THEN Prim(0) ELSE Undefined]

\* a.set(v)
SubscriptionSet(v) ==
  /\ InstallSubscription(ObservableSet(SubCur, v))
  /\ op' = [NoOp EXCEPT !.kind = "set", !.obs = a, !.arg = v]
\* h = d.subscribe(cb)
SubscriptionSubscribe(cb, h) ==
  /\ FreeHandle(h)
  /\ InstallSubscription(subscribe(SubCur, cb, h))
  /\ op' = [NoOp EXCEPT !.kind = "subscribe", !.obs = d, !.cb = cb, !.h = h]
\* Calling the unsubscriber held in handle h (a first or a repeated call).
SubscriptionUnsubscribe(h) ==
  /\ handles[h].state # "free"
  /\ InstallSubscription(SubscriptionUnsubscriber(SubCur, h))
  /\ op' = [NoOp EXCEPT !.kind = IF handles[h].state = "active" THEN "unsubscribe" ELSE "unsubscribeAgain",
                        !.obs = d, !.cb = handles[h].cb, !.h = h]
\* d.get()
SubscriptionGet ==
  /\ InstallSubscription(ComputedObservableGet(SubCur))
  /\ op' = [NoOp EXCEPT !.kind = "get", !.obs = d, !.ret = ComputedObservableGet(SubCur).val[d]]

NextSubscription ==
  \/ \E v \in ValuesOf("transform") : SubscriptionSet(v)
  \/ \E cb \in Recorders, h \in Handles : SubscriptionSubscribe(cb, h)
  \/ \E h \in Handles : SubscriptionUnsubscribe(h)
  \/ SubscriptionGet
SpecSubscription == InitSubscription /\ [][NextSubscription]_vars

\* ------------------------------------------------------------ observations
\* What o.get() returns now that the last call has returned, as toStrictEqual sees it.
Now(o) == post[o]
\* o.get() returns something else than just before the last call.
Changed(o) == post[o] # pre[o]
\* How many times the function cb is registered in the listener array ls.
Occurrences(ls, cb) == Cardinality({i \in 1..Len(ls) : ls[i] = cb})
\* The invocations of cb as a listener of o during the last call.
Invocations(o, cb) == {k \in 1..Len(log) : log[k].obs = o /\ log[k].cb = cb}

\* -------------------------------------------------------------------- C1
\* C1: for a cell c and a plain value v not identical to c's value, c.get()
\* immediately after c.set(v) returns v, with or without listeners anywhere.
C1_SetThenGet == op.kind = "set" /\ op.arg # pre[op.obs] => GetVal(Cur, op.obs) = op.arg
\* A set of a new value on a cell while a derived observable has a listener.
C1_Witness ==
  /\ op.kind = "set" /\ op.arg # pre[op.obs] /\ GetVal(Cur, op.obs) = op.arg
  /\ \E o \in DerivedObs : Len(listeners[o]) > 0

\* -------------------------------------------------------------------- C2
\* The values of o's inputs, as their get() returns them.
InputValues(o) == [i \in 1..Len(ComputeInputs(o)) |-> GetVal(Cur, ComputeInputs(o)[i])]
C3_AllListenersCalled ==
  op.kind = "set" =>
    \A o \in Used(program), cb \in Callbacks :
      Changed(o) =>
        Cardinality({k \in Invocations(o, cb) : log[k].newVal = Now(o)}) >= Occurrences(listeners[o], cb)

\* -------------------------------------------------------------------- C4
\* C4: every listener invocation on X passes newValue = X's value after the
\* change and previousValue = the value X.get() returned just before the change
\* (for a first notification: the value X had when the listener subscribed), and
\* the two are never the same value.
C4_ListenerArguments ==
  op.kind = "set" =>
    \A k \in 1..Len(log) :
      /\ log[k].newVal = Now(log[k].obs)
      /\ log[k].prevVal = pre[log[k].obs]
      /\ ~log[k].same

SubscribeIsSilent == op.kind = "subscribe" => log = <<>> /\ \A o \in Used(program) : ~Changed(o)
\* The set that follows onChange on X and changes X's value invokes the new
\* listener, unless the listener is unsubscribed before the set returns.
FirstInvokedAtNextChange ==
  \A o \in Obs, cb \in Callbacks :
    /\ op.kind = "subscribe" /\ op.obs = o /\ op.cb = cb
    /\ op'.kind = "set" /\ Changed(o)' /\ Occurrences(listeners'[o], cb) > 0
    => Invocations(o, cb)' # {}
\* C6: subscribe/onChange invokes neither the new listener nor any other and
\* changes the get() value of no observable; the new listener is first invoked
\* at the next value change.
C6_SubscribeThenFirstChange == [][SubscribeIsSilent' /\ FirstInvokedAtNextChange]_vars

\* -------------------------------------------------------------------- C7
\* The call of an unsubscribe handle removes one registration of its callback
\* from its observable and no other registration.
RemovesExactlyOne ==
  op'.kind = "unsubscribe" =>
    \A o \in Obs, cb \in Callbacks :
      Occurrences(listeners'[o], cb) =
        Occurrences(listeners[o], cb) - (IF o = op'.obs /\ cb = op'.cb THEN 1 ELSE 0)
\* A second call of the handle changes nothing.
SecondCallIsNoOp ==
  op'.kind = "unsubscribeAgain" =>
    /\ listeners' = listeners /\ handles' = handles /\ log' = <<>>
    /\ \A o \in Used(program) : ~Changed(o)'
\* During a set, a callback is invoked at most once per registration it had
\* when the set was called (a removed registration receives nothing), and at
\* least once per registration it still has on an observable that changed.
RegistrationsReceive ==
  op'.kind = "set" =>
    \A o \in Used(program), cb \in Callbacks :
      /\ Cardinality(Invocations(o, cb)') <= Occurrences(listeners[o], cb)
      /\ Changed(o)' => Cardinality(Invocations(o, cb)') >= Occurrences(listeners'[o], cb)
\* C7: calling an unsubscribe handle removes exactly the one registration it was
\* returned for: that registration receives no later notification, a second
\* call changes nothing, and every other registration (also of the same
\* callback function) keeps receiving every change.
C7_UnsubscribeExactlyOne == [][RemovesExactlyOne /\ SecondCallIsNoOp /\ RegistrationsReceive]_vars

\* -------------------------------------------------------------------- C8
\* A listener called an unsubscribe handle during the last call.
UnsubscribedWhileNotifying == \E k \in 1..Len(log) : log[k].cb # 0
\* No listener of a changed observable that is still registered when the set
\* returns went without an invocation, and no unsubscribing callback was invoked
\* more often than it was registered when the set was called.
NoSkipNoDoubleInvoke ==
  op'.kind = "set" /\ UnsubscribedWhileNotifying' =>
    \A o \in Used(program) :
      /\ Changed(o)' => \A cb \in Callbacks : Occurrences(listeners'[o], cb) > 0 => Invocations(o, cb)' # {}
      /\ \A cb \in Handles : Cardinality(Invocations(o, cb)') <= Occurrences(listeners[o], cb)
\* C8: during the propagation of one set, a listener calling an unsubscribe
\* handle makes no still-subscribed listener of a changed observable be skipped,
\* and the unsubscribing listener is not invoked twice for that change.
C8_UnsubscribeDuringPropagation == [][NoSkipNoDoubleInvoke]_vars

\* -------------------------------------------------------------------- C9
\* C9: in one Observable.batch call making several set calls, each listener on
\* a derived observable of the cells is invoked exactly once if the observable's
\* value changed, with previousValue = the value before the batch and newValue =
\* the value computed from the final cell values, never an intermediate value.
C9_BatchNotifiesOnce ==
  op.kind = "batch" =>
    \A o \in DerivedObs \cap Used(program), cb \in Callbacks :
      /\ Cardinality(Invocations(o, cb)) <= Occurrences(listeners[o], cb)
      /\ Changed(o) => Cardinality(Invocations(o, cb)) = Occurrences(listeners[o], cb)
      /\ \A k \in Invocations(o, cb) : log[k].newVal = Now(o) /\ log[k].prevVal = pre[o]

\* ------------------------------------------------------------------- C10
\* C10: batches are depth-counted: with nested batch calls, or a set inside an
\* open batch, no listener is invoked before the outermost batch has returned
\* (depth back to 0), and the pending notifications are delivered once.
C10_BatchDefersToOutermost ==
  op.kind = "batch" =>
    /\ \A k \in 1..Len(log) : log[k].depth = 0
    /\ \A o \in Used(program), cb \in Callbacks :
         Cardinality(Invocations(o, cb)) <= Occurrences(listeners[o], cb)

\* ------------------------------------------------------------------- C11
\* The observables o depends on, directly or not, through the inputs given at
\* its construction.
RECURSIVE UpstreamOf(_)
UpstreamOf(o) ==
  LET direct == Range(ComputeInputs(o)) IN direct \cup UNION {UpstreamOf(i) : i \in direct}
\* C11: among the observables affected by one set, no observable's listener is
\* invoked before the listeners of all of its affected upstream observables
\* have been invoked.
C11_DependencyOrder ==
  op.kind = "set" =>
    \A n \in 1..Len(log) : \A u \in UpstreamOf(log[n].obs) :
      Changed(u) /\ Len(listeners[u]) > 0 =>
        /\ \E n2 \in 1..(n - 1) : log[n2].obs = u
        /\ \A n2 \in 1..Len(log) : log[n2].obs = u => n2 < n

\* ------------------------------------------------------------------- C12
\* pair = from(inc, e) computed from the cell value given to the last set.
PairOf(v) == <<1, v[2] + 1, v[2] % 2>>
RECURSIVE AliasedBy(_)
AliasedBy(x) == IF hist.alias[x] = 0 THEN {} ELSE {hist.alias[x]} \cup AliasedBy(hist.alias[x])
\* x.get() equals y.get() as long as x was last set to the observable y.
AliasFollows == \A x \in Cells \cap Used(program) : hist.alias[x] # 0 => post[x] = post[hist.alias[x]]
\* A set on a cell x follows that changes x.get() is notified to x's listeners.
AliasNotifies ==
  op.kind = "set" =>
    \A x \in (Cells \cap Used(program)) \ {op.obs} :
      op.obs \in AliasedBy(x) /\ Changed(x) /\ Len(listeners[x]) > 0 =>
        \E n \in Invocations(x, 0) : log[n].newVal = post[x] /\ log[n].prevVal = pre[x]
\* A set on a cell x does not follow (x was set to a plain value or to another
\* observable since) neither changes x.get() nor invokes x's listeners.
AliasReleases ==
  op.kind = "set" =>
    \A x \in (Cells \cap Used(program)) \ {op.obs} :
      op.obs \notin AliasedBy(x) => ~Changed(x) /\ Invocations(x, 0) = {}
\* C13: after x.set(y) with y an observable, x.get() equals y.get() until the
\* next x.set and the changes of y are notified to x's listeners; once x is set
\* to something else, changes of y neither change x.get() nor invoke x's
\* listeners.
C13_AliasFollowsInput == program = "alias" => AliasFollows /\ AliasNotifies /\ AliasReleases

\* ------------------------------------------------------------------- C14
\* The observable the function of sel returns for a's current value.
Selected == IF post[a] = Prim(0) THEN z ELSE q
\* sel.get() is the value of the observable its function returns.
SelectFollows == post[sel] = post[Selected]
\* A set that changes sel.get() (a set on a, on the returned observable or on
\* what that one is derived from) invokes sel's listeners with the new value.
SelectNotifies ==
  op.kind = "set" /\ Changed(sel) /\ Len(listeners[sel]) > 0 =>
    \E n \in Invocations(sel, 0) : log[n].newVal = post[sel] /\ log[n].prevVal = pre[sel]
\* A set on an observable that sel's function returned earlier but not for a's
\* current value does not invoke sel's listeners.
SelectIgnoresSuperseded ==
  op.kind = "set" /\ op.obs \notin ({a, Selected} \cup UpstreamOf(Selected)) => Invocations(sel, 0) = {}
\* C14: for sel = a.transform(f) with f returning an observable, sel.get() is
\* always the value of the observable f returns for a's current value; sel's
\* listeners are invoked when a or that observable changes and not when a
\* superseded one changes, also when a changed while sel had no listener.
C14_SelectFollowsReturned ==
  program = "select" => SelectFollows /\ SelectNotifies /\ SelectIgnoresSuperseded

C16_ComputeReadsCompute ==
  op.kind = "compute" => op.error = "" /\ op.ret = Prim(post[a][2] % 2)

\* ------------------------------------------------------------------- C17
\* C17: while cond has a listener, a set on a cell that cond's function did not
\* read the last time it ran neither runs the function again nor invokes
\* cond's listeners.
C17_StaleInputIgnored ==
  program = "compute" /\ op.kind = "set" /\ Len(listeners[cond]) > 0
    /\ op.obs \notin Range(hist.before[cond])
  => cond \notin Range(evaluated) /\ Invocations(cond, 0) = {}

\* ------------------------------------------------------------------- C18
\* C18: while cond has a listener, a set that changes the value cond's function
\* computes updates cond and invokes its listeners with the new value, whenever
\* the function first read the cell that is set.
C18_ComputeNotifiesCurrentInputs ==
  program = "compute" /\ op.kind = "set" /\ Len(listeners[cond]) > 0 /\ Changed(cond)
  => /\ val[cond] = post[cond]
     /\ \E n \in Invocations(cond, 0) : log[n].newVal = post[cond] /\ log[n].prevVal = pre[cond]

\* ------------------------------------------------------------------- C19
\* odd.get() is the last value given to a that satisfies the predicate, or
\* undefined when a has taken no such value.
OnlyIfKeepsLastPassing == post[odd] = hist.passed
\* A set of a to a value that fails the predicate leaves odd.get() as it was and
\* invokes no listener of odd.
OnlyIfIgnoresFailing ==
  op.kind = "set" /\ op.arg[2] % 2 # 1 => ~Changed(odd) /\ Invocations(odd, 0) = {}
\* C19: for odd = a.onlyIf(p), after any sequence of set, get, subscribe and
\* unsubscribe calls, odd.get() returns the most recent value of a that
\* satisfied p, or undefined when there is none; a value that fails p leaves
\* the result unchanged and invokes no listener.
C19_OnlyIfLastPassing == program = "onlyIf" => OnlyIfKeepsLastPassing /\ OnlyIfIgnoresFailing

\* ------------------------------------------------------------------- C20
\* C20: lat = Observable.latest(a, b): lat.get() returns a's value at first and
\* then the value of the cell that was modified last, whether or not get() was
\* called between the sets.
C20_LatestModified == program = "latest" => post[lat] = post[hist.modified]

CellInputValues(o) == [i \in 1..Len(ComputeInputs(o)) |-> post[ComputeInputs(o)[i]]]
\* A get() on o whose inputs have the values of the previous invocation of its
\* function leaves the memoized arguments and result (the same object) in place.
CacheReused ==
  \A o \in {d, e, m} :
    op'.kind = "get" /\ op'.obs = o /\ lastArgs[o] = CellInputValues(o) =>
      lastArgs'[o] = lastArgs[o] /\ lastResult'[o] = lastResult[o] /\ op'.ret = Content(lastResult[o])
\* Two get() calls in a row on a derived observable return the same reference.
SameReferenceTwice ==
  \A o \in DerivedObs :
    op.kind = "get" /\ op.obs = o /\ op'.kind = "get" /\ op'.obs = o =>
      op'.ret = op.ret /\ lastResult'[o] = lastResult[o] /\ val'[o] = val[o]
\* C22: a derived observable calls its function only when an input's value is
\* not identical to the one of the previous call; otherwise the cached result
\* is reused and two get() calls with unchanged inputs return the same reference.
C22_MemoizedCompute == [][CacheReused /\ SameReferenceTwice]_vars
\* get() on m = Observable.from(a, b), not attached, after a was changed: the
\* memoized arguments are the current inputs and the memoized array is returned.
C22_Witness ==
  /\ program = "sum" /\ op.kind = "get" /\ op.obs = m /\ ~attachedToInputs[m]
  /\ post[a] # Prim(0)
  /\ lastArgs[m] = <<post[a], post[b]>> /\ op.ret = Content(lastResult[m])

\* ------------------------------------------------------------------- C23
\* get() on a compute observable that is not attached runs its function.
EvaluatedWhenUnattached ==
  \A o \in ComputedObs :
    op'.kind = "get" /\ op'.obs = o /\ ~attachedToInputs[o] => evaluated' = <<o>>
\* get() on an attached compute observable that no upstream change has marked
\* dirty returns the cached value without running the function.
CachedWhenAttached ==
  \A o \in ComputedObs :
    op'.kind = "get" /\ op'.obs = o /\ attachedToInputs[o] /\ ~dirty[o] =>
      o \notin Range(evaluated') /\ op'.ret = Content(val[o])
\* C23: a compute observable's function runs on every get() while it is not
\* attached, and a get() on an attached one whose inputs have not changed
\* returns the cached value without calling the function.
C23_ComputeCachedWhileAttached == [][EvaluatedWhenUnattached /\ CachedWhenAttached]_vars

\* ------------------------------------------------------------------- C24
\* o is one of the current inputs of an attached observable.
InputOfAttached(o) == \E x \in Used(program) : attachedToInputs[x] /\ o \in Range(inputs[x])
\* C24: between calls an observable is attached exactly when it has a listener
\* or is an input of an attached observable, whatever subscribe, unsubscribe
\* and set calls were made, sets that add or remove inputs included.
C24_AttachedIffObserved ==
  \A o \in Used(program) : attachedToInputs[o] <=> (Len(listeners[o]) > 0 \/ InputOfAttached(o))

\* ------------------------------------------------------------------- C25
\* x is not attached and no input of x lists it as an output.
Released(x) == ~attachedToInputs[x] /\ \A i \in Range(inputs[x]) : x \notin Range(outputs[i])
\* After an unsubscribe that left op.obs without listener and without attached
\* output, op.obs and everything upstream of it is released unless it still has
\* a listener or is an input of an attached observable, and then it is attached.
ReleasedUpstream ==
  op.kind = "unsubscribe" /\ Len(listeners[op.obs]) = 0 /\ ~InputOfAttached(op.obs) =>
    \A x \in {op.obs} \cup UpstreamOf(op.obs) :
      IF Len(listeners[x]) = 0 /\ ~InputOfAttached(x) THEN Released(x) ELSE attachedToInputs[x]
\* The contents of the values of a list, whichever objects hold them.
ContentsOf(vs) == [i \in 1..Len(vs) |-> Content(vs[i])]
\* A set does not run the function of a released derived observable that no
\* attached observable reads:
\* the arguments of its last invocation stay the memoized ones.
UnattachedNotEvaluated ==
  \A o \in DerivedObs \cap Used(program) :
    op'.kind = "set" /\ Released(o) /\ ~InputOfAttached(o) /\ ~InputOfAttached(o)' =>
      ContentsOf(lastArgs'[o]) = ContentsOf(lastArgs[o])
C26_InputsAreReads ==
  \A o \in ComputedObs \cap Used(program) :
    o \in Range(evaluated) /\ op.error = "" =>
      /\ Range(inputs[o]) = Range(hist.reads[o])
      /\ Len(inputs[o]) = Cardinality(Range(inputs[o]))

\* ------------------------------------------------------------------- C27
\* What a fresh evaluation of the derived observable o from the current values
\* of its inputs produces (an observable it returns is followed, as get() does).
FreshValue(o) ==
  LET r == Compute(Cur, o, InputValues(o)) IN IF IsObs(r) THEN GetVal(Cur, r[2]) ELSE r
\* C27: between calls the cached value of every attached observable equals the
\* value a fresh evaluation from its inputs' current values would produce, and
\* get() returns it.
C27_CacheIsFresh ==
  \A o \in (DerivedObs \ {odd, lat}) \cap Used(program) :
    attachedToInputs[o] => Content(val[o]) = Content(FreshValue(o)) /\ post[o] = Content(val[o])

\* ------------------------------------------------------------------- C28
\* A dirty observable read with get() is no longer dirty when get() returns.
CleanAfterGet ==
  \A o \in Used(program) : dirty[o] /\ op'.kind = "get" /\ op'.obs = o => ~dirty'[o]
\* A dirty observable that becomes attached is no longer dirty.
CleanAfterAttach ==
  \A o \in Used(program) : dirty[o] /\ ~attachedToInputs[o] /\ attachedToInputs'[o] => ~dirty'[o]
\* C28: an observable that was marked dirty stops being dirty the next time it
\* is read with get() or becomes attached.
C28_DirtyClearedByGet == [][CleanAfterGet /\ CleanAfterAttach]_vars

\* ------------------------------------------------------------------- C29
\* What the reading listener saw get() return for o during invocation n.
SeenBy(n, o) == log[n].seen[IndexOf(ReadBy(program), o)]
\* C29: during a set of the cell a, every invocation of a reading listener of a
\* sees, for each attached observable derived from a, the value computed from
\* the new value of a (what a fresh evaluation gives once the set has returned).
C29_ListenerReadsFreshOutputs ==
  program = "chain" /\ op.kind = "set" =>
    \A n \in 1..Len(log) :
      log[n].cb = Reader /\ log[n].obs = a =>
        \A o \in Range(ReadBy(program)) :
          attachedToInputs[o] => SeenBy(n, o) = Content(FreshValue(o))

\* ------------------------------------------------------------------- C30
\* C30: between calls, x occurs in the output list of i exactly once when x is
\* attached and i is one of x's inputs, and not at all otherwise.
C30_OutputsMirrorInputs ==
  \A x \in Used(program), i \in Used(program) :
    Occurrences(outputs[i], x) = IF attachedToInputs[x] /\ i \in Range(inputs[x]) THEN 1 ELSE 0

\* ------------------------------------------------------------------- C31
\* The call threw what the function of risky threw, and nothing when the
\* function did not run or a was not 1; building len threw the usage error.
ErrorPropagates ==
  /\ program = "risky" /\ op.kind \in {"get", "set", "subscribe"} =>
       op.error = IF risky \in Range(evaluated) /\ val[a] = Prim(1) THEN RiskyError ELSE ""
  /\ program = "nested" /\ op.kind = "compute" => op.error = NestedComputeError
\* Between calls capturedInputs is undefined and inputAlreadyCaptured is false.
CaptureSlotEmpty == ~capturing /\ ~inputAlreadyCaptured
\* An evaluation that does not throw captures the observables it read.
CapturesOwnReads ==
  /\ program = "risky" /\ risky \in Range(evaluated) /\ val[a] # Prim(1) =>
       op.error = "" /\ hist.reads[risky] = <<a, b>>
  /\ program = "nested" /\ op.kind = "get" /\ op.obs = book =>
       op.error = "" /\ evaluated = <<book>> /\ hist.reads[book] = <<a, b>>
\* C31: what a compute function throws, and the nested-capture usage error,
\* reach the caller of get()/set() unchanged, and afterwards the capture slot is
\* empty: a later evaluation succeeds and captures exactly its own reads.
C31_ErrorsPropagate == ErrorPropagates /\ CaptureSlotEmpty /\ CapturesOwnReads
\* get() on risky returns normally after an earlier call has thrown.
C31_Witness ==
  /\ program = "risky" /\ hist.threw /\ op.kind = "get" /\ op.obs = risky /\ op.error = ""
  /\ hist.reads[risky] = <<a, b>>

\* ------------------------------------------------------------------- C32
\* C32: when a listener of the cell a calls a.set during its notification, each
\* listener of a (registered once) receives the changes in value order: the
\* previousValue of each of its invocations is the newValue of the one before,
\* and the newValue of its last invocation is a.get() once the set has returned.
C32_ReentrantSetInOrder ==
  program = "reentrant" /\ op.kind = "set" =>
    \A cb \in CallbacksOf(program) :
      Occurrences(listeners[a], cb) = 1 =>
        \A n \in Invocations(a, cb) :
          IF \E k \in Invocations(a, cb) : k > n
          THEN \A k \in Invocations(a, cb) :
                 k > n /\ (\A j \in Invocations(a, cb) : j <= n \/ j >= k) => log[k].prevVal = log[n].newVal
          ELSE log[n].newVal = post[a]

\* ------------------------------------------------------------------- C33
\* C33: subscribing or unsubscribing a listener that only records changes no
\* get(): every observable returns what it returned before the call, and sel,
\* with or without listener, returns what a sel that never had a listener
\* returns, the value of the observable selected by a's current value.
C33_ListenerIsTransparent ==
  program = "select" =>
    /\ op.kind \in {"subscribe", "unsubscribe", "unsubscribeAgain"} => post = pre
    /\ post[sel] = Content(FreshValue(sel))

\* ------------------------------------------------------------------- C34
\* C34: get() invokes no listener and leaves the attached flag, the listener
\* list and the cached value of every observable as they were, also when the
\* observable read is dirty or not attached and is evaluated again.
C34_GetHasNoEffect ==
  [][op'.kind = "get" =>
       /\ log' = <<>> /\ listeners' = listeners
       /\ attachedToInputs' = attachedToInputs /\ val' = val]_vars
\* get() on the derived observable d, not attached, whose cached value is out
\* of date: it returned the value computed from a and left the cache alone.
C34_Witness ==
  /\ program = "transform" /\ op.kind = "get" /\ op.obs = d /\ ~attachedToInputs[d]
  /\ Content(val[d]) # op.ret /\ op.ret = Prim(val[a][2] \div 2)

\* ------------------------------------------------------------------- C35
\* The listener functions invoked for o during the last call, in order.
Notified(o) ==
  LET calls == SelectSeq(log, LAMBDA entry : entry.obs = o) IN [i \in 1..Len(calls) |-> calls[i].cb]
\* C35: a set invokes the listeners of each observable whose value it changes
\* in the order of their subscription, each once, and no listener of an
\* observable whose value it does not change (for the observables whose listener
\* list the call leaves as it is).
C35_ListenersInOrder ==
  [][op'.kind = "set" =>
       \A o \in Used(program) :
         listeners'[o] = listeners[o] =>
           Notified(o)' = IF post'[o] # post[o] THEN listeners[o] ELSE <<>>]_vars

\* ------------------------------------------------------------------- C36
\* C36: in the acyclic programs whose listeners and functions call no set,
\* every set returns (its action yields the next state), having invoked each
\* listener at most once for each of its registrations, also when a listener
\* detaches observables from output lists that are being iterated.
C36_SetTerminates ==
  [][op'.kind = "set" =>
       \A o \in Used(program), cb \in Callbacks :
         Cardinality(Invocations(o, cb)') <= Occurrences(listeners[o], cb)]_vars
\* A set has returned during which the listener of a derived observable removed
\* itself, taking the observable out of a's output list while it was iterated.
C36_Witness ==
  /\ program = "transform" /\ op.kind = "set"
  /\ \E k \in 1..Len(log) :
       /\ log[k].cb \in Handles /\ log[k].obs \in {d, e}
       /\ handles[log[k].cb].state = "removed"
       /\ ~attachedToInputs[log[k].obs] /\ log[k].obs \notin Range(outputs[a])

\* ------------------------------------------------------------------- C37
\* The updateValue closures called during the last call.
UpdateCalls == {k \in 1..Len(log) : log[k].obs = a}
\* C37: in the subscription-based ComputedObservable, d holds exactly one
\* subscription on its input a while it has a listener and none while it has
\* none, whatever subscribe and unsubscribe calls were made; hence a set that
\* changes a calls the update function once.
C37_OneSubscriptionPerInput ==
  program = "subscription" =>
    /\ Len(listeners[a]) = IF Len(listeners[d]) > 0 THEN 1 ELSE 0
    /\ op.kind = "set" => Cardinality(UpdateCalls) <= 1

\* ------------------------------------------------------------------- C38
\* forceRender was called during the last call.
RenderRequested == \E k \in 1..Len(log) : log[k].cb = ForceRender
\* The effect found a value other than the rendered one and asked for a render.
EffectCatchesUp == op.kind = "effect" /\ pre[hook.obs] # hook.val => hook.renders
\* A call that changes the observable after the subscription asks for a render.
ChangeRequestsRender ==
  hook.phase = "subscribed" /\ op.kind \in {"set", "subscribe", "unsubscribe", "unsubscribeAgain"}
    /\ pre[hook.obs] # post[hook.obs] => RenderRequested
\* C38: useObservable loses no update: a change between the render and the
\* effect makes the effect request a re-render, every change after the
\* subscription requests one, and nothing requests one after the cleanup.
C38_HookLosesNoUpdate ==
  program = "hook" =>
    /\ EffectCatchesUp
    /\ ChangeRequestsRender
    /\ hook.phase = "unmounted" => ~RenderRequested

====
